---- MODULE Spec2Model ----
(* A model of pipecat's UserIdleProcessor                                   *)
(* (src/src/pipecat/processors/user_idle_processor.py): the frame handler   *)
(* process_frame, cleanup, and the background task _idle_task_handler, at   *)
(* the granularity of asyncio's suspension points (every await).            *)
EXTENDS Naturals, Sequences, FiniteSets

(* ------------------------------------------------------------------ *)
(* Bounds                                                             *)
(* ------------------------------------------------------------------ *)

\* The timeout T given to the constructor, in clock ticks.
Timeout == 2

\* How many frames the pipeline hands to process_frame in one run.
MaxFrames == 2

\* How many times the pipeline calls cleanup() directly (teardown pass).
MaxCleanups == 2

(* ------------------------------------------------------------------ *)
(* Frames                                                             *)
(* ------------------------------------------------------------------ *)

EndKinds == {"EndFrame", "EndTaskFrame"}

ActivityKinds == {"UserStartedSpeakingFrame", "UserStoppedSpeakingFrame", "BotSpeakingFrame"}

\* "TextFrame" stands for every frame kind the processor does not act on.
FrameKinds == EndKinds \cup ActivityKinds \cup {"TextFrame"}

\* A frame: its sequence identifier and its kind.
Frame(i, k) == [id |-> i, kind |-> k]

NoFrame == Frame(0, "none")

\* FrameDirection.
Directions == {"downstream", "upstream"}

NoDirection == "none"

(* ------------------------------------------------------------------ *)
(* State                                                              *)
(* ------------------------------------------------------------------ *)

VARIABLES
    running,      \* self._running
    interrupted,  \* self._interrupted
    idleEvent,    \* self._idle_event (asyncio.Event: is it set)
    idleTask,     \* where self._idle_task is: "created" (scheduled, no step run
                  \* yet), "waiting" (suspended in wait_for), "expired" (the
                  \* timer fired, TimeoutError not yet delivered), "callback"
                  \* (suspended in await self._callback), "finished" (returned),
                  \* "cancelled" (ended by CancelledError)
    cancelReq,    \* a task.cancel() is pending delivery at the task's next step
    timer,        \* ticks since the current wait_for started, saturating at T
    pc,           \* where the pipeline's call into the processor is: "idle",
                  \* "super", "pf_cleanup", "push", "cleanup"
    frame,        \* the frame process_frame is working on
    direction,    \* the FrameDirection process_frame was called with
    pushDir,      \* the FrameDirection given to push_frame in this call
    received,     \* the frames handed to process_frame, in order
    pushed,       \* the frames handed to push_frame, in order
    handled,      \* the frames that passed the `if self._running` test of line 54
    exits,        \* how each finished cleanup() call left: "returned" / "raised"
    calls,        \* what the idle task was doing when each cleanup() call began
    nCleanups,    \* direct cleanup() calls made so far
    endObserved,  \* line 46 has seen an End/EndTask frame
    speaking,     \* "none"; "started" once a UserStartedSpeaking frame was handed
                  \* over inside an open window; "stopped" once a later
                  \* UserStoppedSpeaking frame has been processed
    winAge,       \* ticks since the current wait window began, saturating at T
    actAge,       \* ticks since the last activity frame was received while running
    quietAge,     \* ticks since an activity frame was last received or processed
    fired,        \* what held when the callback in progress was invoked
    \* ExotelFrameSerializer (examples/exotel-websocket/custom/serializers/exotel.py)
    streamSid,    \* self._stream_sid
    sampleRate,   \* self._params.sample_rate
    built,        \* the stream_sid and sample rate the constructor was given
    serCalls,     \* serialize / deserialize calls made so far
    serLast,      \* the last call: the operation, its input and what it returned
    \* on_call_state_updated (examples/foundational/batch_dialout_bot.py)
    dialPc,       \* "idle", "try" (in start_dialout), "sleep" (in asyncio.sleep),
                  \* "done" (the handler has returned), "failed" (it has raised)
    callId,       \* the call id the bot was started with
    callState,    \* the state the handler was called with
    phone,        \* the number start_dialout was last asked to dial
    outcomes,     \* how each start_dialout attempt of this call ended
    waits,        \* the backoff_time of each asyncio.sleep of this call
    backoff,      \* backoff_time
    slept,        \* seconds spent in the current asyncio.sleep
    dialoutId,    \* dialout_id
    nEvents       \* calls of the handler so far

idleVars == <<running, interrupted, idleEvent, idleTask, cancelReq, timer, pc, frame,
              direction, pushDir, received, pushed, handled, exits, calls, nCleanups,
              endObserved, speaking, winAge, actAge, quietAge, fired>>

serVars == <<streamSid, sampleRate, built, serCalls, serLast>>

dialVars == <<dialPc, callId, callState, phone, outcomes, waits, backoff, slept, dialoutId,
             nEvents>>

vars == <<idleVars, serVars, dialVars>>

procVars == <<running, interrupted, idleEvent>>
taskVars == <<idleTask, cancelReq, timer>>
callVars == <<pc, frame, direction, pushDir, received, pushed, handled, exits, calls, nCleanups, endObserved>>
clockVars == <<winAge, actAge, quietAge>>

TaskStates == {"created", "waiting", "expired", "callback", "finished", "cancelled"}

NeverFired ==
    [n |-> 0, speaking |-> "none", winAge |-> Timeout, actAge |-> Timeout,
     quietAge |-> Timeout, afterEnd |-> FALSE, afterExit |-> FALSE]

\* UserIdleProcessor.__init__: the flags, and _create_idle_task, which makes the
\* event (clear) and schedules the task without running any of it.
ProcessorInit ==
    /\ running = TRUE
    /\ interrupted = FALSE
    /\ idleEvent = FALSE
    /\ idleTask = "created"
    /\ cancelReq = FALSE
    /\ timer = 0
    /\ pc = "idle"
    /\ frame = NoFrame
    /\ direction = NoDirection
    /\ pushDir = NoDirection
    /\ received = <<>>
    /\ pushed = <<>>
    /\ handled = <<>>
    /\ exits = <<>>
    /\ calls = <<>>
    /\ nCleanups = 0
    /\ endObserved = FALSE
    /\ speaking = "none"
    /\ winAge = 0
    /\ actAge = Timeout
    /\ quietAge = Timeout
    /\ fired = NeverFired

(* ------------------------------------------------------------------ *)
(* The clock                                                          *)
(* ------------------------------------------------------------------ *)

Bump(x) == IF x < Timeout THEN x + 1 ELSE x

\* One unit of time passes. Only a wait_for in progress has a running timer,
\* and time is observed only as long as the idle task lives.
Tick ==
    /\ idleTask \in {"created", "waiting", "expired", "callback"}
    /\ timer' = IF idleTask = "waiting" THEN Bump(timer) ELSE timer
    /\ winAge' = Bump(winAge)
    /\ actAge' = Bump(actAge)
    /\ quietAge' = Bump(quietAge)
    /\ <<timer', winAge', actAge', quietAge'>> # <<timer, winAge, actAge, quietAge>>
    /\ UNCHANGED <<procVars, idleTask, cancelReq, callVars, speaking, fired>>
    /\ UNCHANGED <<serVars, dialVars>>

(* ------------------------------------------------------------------ *)
(* asyncio: the task object                                           *)
(* ------------------------------------------------------------------ *)

\* The task is done: it returned, or it ended cancelled.
TaskDone == idleTask \in {"finished", "cancelled"}

\* Faulty variant of AwaitTask: a cleanup() that cancels the task and does not
\* await it.
AwaitTaskSkipped == TRUE

\* `await self._idle_task` (line 67) completes only once the task is done.
AwaitTask == idleTask \in {"finished", "cancelled"}

\* Faulty variant of CancelTask: the task is never cancelled and is left to
\* notice the event and the running flag on its own.
CancelTaskOmitted == UNCHANGED cancelReq

\* self._idle_task.cancel(): nothing on a task that is done, otherwise a
\* CancelledError is thrown into the task at its next step.
CancelTask == cancelReq' = (cancelReq \/ ~TaskDone)

\* Faulty variant of TimerDue: the timer is due one tick early.
TimerDueEarly == timer + 1 >= Timeout

\* wait_for(..., timeout=self._timeout): the timer is due after T ticks.
TimerDue == timer >= Timeout

\* Awaiting a task that ended cancelled raises CancelledError in the awaiter.
Outcome == IF idleTask = "cancelled" THEN "raised" ELSE "returned"

(* ------------------------------------------------------------------ *)
(* cleanup (lines 65-67)                                              *)
(* ------------------------------------------------------------------ *)

\* Line 66, and the start of the await of line 67.
CleanupBegin(via) ==
    /\ CancelTask
    /\ calls' = Append(calls, [task |-> idleTask, via |-> via, frames |-> Len(received)])

\* Line 67 completes: the call returns, or raises CancelledError.
CleanupEnd ==
    /\ AwaitTask
    /\ exits' = Append(exits, Outcome)

(* ------------------------------------------------------------------ *)
(* process_frame (lines 42-63)                                        *)
(* ------------------------------------------------------------------ *)

\* A wait window is open: the timer of the current wait_for has not run out.
WindowOpen == idleTask = "created" \/ (idleTask = "waiting" /\ timer < Timeout)

\* Lines 42-43: the pipeline hands frame k over, travelling in direction d;
\* process_frame awaits the base class's process_frame.
CallProcessFrame(k, d) ==
    /\ pc = "idle"
    /\ Len(received) < MaxFrames
    /\ pc' = "super"
    /\ frame' = Frame(Len(received) + 1, k)
    /\ direction' = d
    /\ received' = Append(received, Frame(Len(received) + 1, k))
    /\ actAge' = IF k \in ActivityKinds /\ running THEN 0 ELSE actAge
    /\ quietAge' = IF k \in ActivityKinds /\ running THEN 0 ELSE quietAge
    /\ speaking' = IF k = "UserStartedSpeakingFrame" /\ running /\ WindowOpen
                   THEN "started" ELSE speaking
    /\ UNCHANGED <<procVars, taskVars, pushDir, pushed, handled, exits, calls,
                   nCleanups, endObserved, winAge, fired>>
    /\ UNCHANGED <<serVars, dialVars>>

\* Line 51: push_frame is called with the frame and the direction.
PushFrame ==
    /\ pushed' = Append(pushed, frame)
    /\ pushDir' = direction

\* Lines 46-49, up to the await inside cleanup.
ObserveEnd ==
    /\ running' = FALSE
    /\ idleEvent' = TRUE
    /\ CleanupBegin("process_frame")
    /\ endObserved' = TRUE
    /\ pc' = "pf_cleanup"
    /\ UNCHANGED <<pushed, pushDir>>

\* super().process_frame returns; line 46 tests the frame.
SuperReturns ==
    /\ pc = "super"
    /\ IF frame.kind \in EndKinds
       THEN ObserveEnd
       ELSE /\ PushFrame
            /\ pc' = "push"
            /\ UNCHANGED <<running, idleEvent, cancelReq, calls, endObserved>>
    /\ UNCHANGED <<interrupted, idleTask, timer, frame, direction, received,
                   handled, exits, nCleanups, speaking, clockVars, fired>>
    /\ UNCHANGED <<serVars, dialVars>>

\* Line 49 completes. A CancelledError raised by the await leaves process_frame
\* at once; otherwise line 51 pushes the frame.
EndCleanupDone ==
    /\ pc = "pf_cleanup"
    /\ CleanupEnd
    /\ IF Outcome = "raised"
       THEN /\ pc' = "idle"
            /\ frame' = NoFrame
            /\ direction' = NoDirection
            /\ UNCHANGED <<pushed, pushDir>>
       ELSE /\ pc' = "push"
            /\ PushFrame
            /\ UNCHANGED <<frame, direction>>
    /\ UNCHANGED <<procVars, taskVars, received, handled, calls, nCleanups,
                   endObserved, speaking, clockVars, fired>>
    /\ UNCHANGED <<serVars, dialVars>>

\* Faulty variant of FlagAfter: a BotSpeaking frame clears the flag as a
\* UserStoppedSpeaking frame does.
FlagAfterBotClears(k, flag) ==
    IF k = "UserStartedSpeakingFrame" THEN TRUE
    ELSE IF k \in {"UserStoppedSpeakingFrame", "BotSpeakingFrame"} THEN FALSE
    ELSE flag

\* Lines 56-63: what an activity frame does to the flag and the event.
FlagAfter(k, flag) ==
    IF k = "UserStartedSpeakingFrame" THEN TRUE
    ELSE IF k = "UserStoppedSpeakingFrame" THEN FALSE
    ELSE flag

\* Faulty variant of Accepts: line 54's test of the running flag is missing.
AcceptsAlways == TRUE

\* Line 54: only a running processor looks at activity frames.
Accepts == running

\* push_frame returns; lines 54-63; process_frame returns.
PushReturns ==
    /\ pc = "push"
    /\ IF Accepts
       THEN /\ handled' = Append(handled, frame)
            /\ interrupted' = FlagAfter(frame.kind, interrupted)
            /\ idleEvent' = (idleEvent \/ frame.kind \in ActivityKinds)
            /\ quietAge' = IF frame.kind \in ActivityKinds THEN 0 ELSE quietAge
            /\ speaking' = IF frame.kind = "UserStoppedSpeakingFrame" /\ speaking = "started"
                           THEN "stopped" ELSE speaking
       ELSE UNCHANGED <<handled, interrupted, idleEvent, quietAge, speaking>>
    /\ pc' = "idle"
    /\ frame' = NoFrame
    /\ direction' = NoDirection
    /\ pushDir' = NoDirection
    /\ UNCHANGED <<running, taskVars, received, pushed, exits, calls, nCleanups,
                   endObserved, winAge, actAge, fired>>
    /\ UNCHANGED <<serVars, dialVars>>

(* ------------------------------------------------------------------ *)
(* cleanup called by the pipeline (teardown pass)                     *)
(* ------------------------------------------------------------------ *)

CallCleanup ==
    /\ pc = "idle"
    /\ nCleanups < MaxCleanups
    /\ CleanupBegin("pipeline")
    /\ nCleanups' = nCleanups + 1
    /\ pc' = "cleanup"
    /\ UNCHANGED <<procVars, idleTask, timer, frame, direction, pushDir, received,
                   pushed, handled, exits, endObserved, speaking, clockVars, fired>>
    /\ UNCHANGED <<serVars, dialVars>>

CleanupReturns ==
    /\ pc = "cleanup"
    /\ CleanupEnd
    /\ pc' = "idle"
    /\ UNCHANGED <<procVars, taskVars, frame, direction, pushDir, received, pushed,
                   handled, calls, nCleanups, endObserved, speaking, clockVars, fired>>
    /\ UNCHANGED <<serVars, dialVars>>

(* ------------------------------------------------------------------ *)
(* _idle_task_handler (lines 73-83)                                   *)
(* ------------------------------------------------------------------ *)

\* Line 83 (finally), then the loop test of line 74 and, when it passes, the
\* wait_for of line 76, which starts a new window.
LoopAgain ==
    /\ idleEvent' = FALSE
    /\ idleTask' = IF running THEN "waiting" ELSE "finished"
    /\ timer' = 0
    /\ winAge' = 0

\* The task's first step: lines 74 and 76.
IdleStart ==
    /\ idleTask = "created"
    /\ ~cancelReq
    /\ idleTask' = IF running THEN "waiting" ELSE "finished"
    /\ timer' = 0
    /\ UNCHANGED <<procVars, cancelReq, callVars, speaking, clockVars, fired>>
    /\ UNCHANGED <<serVars, dialVars>>

\* A task cancelled before its first step never runs its body.
IdleCancelledUnstarted ==
    /\ idleTask = "created"
    /\ cancelReq
    /\ idleTask' = "cancelled"
    /\ cancelReq' = FALSE
    /\ UNCHANGED <<procVars, timer, callVars, speaking, clockVars, fired>>
    /\ UNCHANGED <<serVars, dialVars>>

\* The timer of wait_for fires; the TimeoutError reaches the handler at the
\* task's next step.
TimerExpires ==
    /\ idleTask = "waiting"
    /\ ~cancelReq
    /\ TimerDue
    /\ idleTask' = "expired"
    /\ UNCHANGED <<procVars, cancelReq, timer, callVars, speaking, clockVars, fired>>
    /\ UNCHANGED <<serVars, dialVars>>

\* Line 76 returns because the event is set.
IdleWake ==
    /\ idleTask = "waiting"
    /\ ~cancelReq
    /\ idleEvent
    /\ LoopAgain
    /\ UNCHANGED <<running, interrupted, cancelReq, callVars, speaking, actAge,
                   quietAge, fired>>
    /\ UNCHANGED <<serVars, dialVars>>

\* Faulty variant of MayFire: line 78's test of the flag is missing.
MayFireAlways == TRUE

\* Line 78: the callback runs only when the flag is clear.
MayFire == ~interrupted

\* Lines 77-79: the TimeoutError is delivered.
IdleTimeout ==
    /\ idleTask = "expired"
    /\ ~cancelReq
    /\ IF MayFire
       THEN /\ idleTask' = "callback"
            /\ fired' = [n |-> 1, speaking |-> speaking, winAge |-> winAge,
                         actAge |-> actAge, quietAge |-> quietAge,
                         afterEnd |-> endObserved, afterExit |-> exits # <<>>]
            /\ UNCHANGED <<idleEvent, timer, winAge>>
       ELSE LoopAgain /\ UNCHANGED fired
    /\ UNCHANGED <<running, interrupted, cancelReq, callVars, speaking, actAge, quietAge>>
    /\ UNCHANGED <<serVars, dialVars>>

\* Line 79 returns, then the finally clause and the loop.
IdleCallbackReturns ==
    /\ idleTask = "callback"
    /\ ~cancelReq
    /\ LoopAgain
    /\ fired' = NeverFired
    /\ UNCHANGED <<running, interrupted, cancelReq, callVars, speaking, actAge, quietAge>>
    /\ UNCHANGED <<serVars, dialVars>>

\* Lines 80-83: a CancelledError raised by the await of line 76 is caught, the
\* loop is left and the task returns.
IdleCancelled ==
    /\ idleTask \in {"waiting", "expired"}
    /\ cancelReq
    /\ cancelReq' = FALSE
    /\ idleEvent' = FALSE
    /\ idleTask' = "finished"
    /\ UNCHANGED <<running, interrupted, timer, callVars, speaking, clockVars, fired>>
    /\ UNCHANGED <<serVars, dialVars>>

\* Line 76 on Python before 3.12: wait_for returns the result of a wait that
\* completed before the cancellation was delivered, and the cancellation is lost.
IdleCancelSwallowed ==
    /\ idleTask = "waiting"
    /\ cancelReq
    /\ idleEvent
    /\ cancelReq' = FALSE
    /\ LoopAgain
    /\ UNCHANGED <<running, interrupted, callVars, speaking, actAge, quietAge, fired>>
    /\ UNCHANGED <<serVars, dialVars>>

\* A CancelledError raised inside line 79 is in no try body: the except clause
\* of line 80 does not apply, line 83 runs and the task ends cancelled.
IdleCallbackCancelled ==
    /\ idleTask = "callback"
    /\ cancelReq
    /\ cancelReq' = FALSE
    /\ idleEvent' = FALSE
    /\ idleTask' = "cancelled"
    /\ fired' = NeverFired
    /\ UNCHANGED <<running, interrupted, timer, callVars, speaking, clockVars>>
    /\ UNCHANGED <<serVars, dialVars>>

(* ------------------------------------------------------------------ *)
(* Specification                                                      *)
(* ------------------------------------------------------------------ *)

IdleStep ==
    \/ IdleStart
    \/ IdleCancelledUnstarted
    \/ IdleWake
    \/ IdleTimeout
    \/ IdleCallbackReturns
    \/ IdleCancelled
    \/ IdleCancelSwallowed
    \/ IdleCallbackCancelled

CallerStep ==
    \/ \E k \in FrameKinds, d \in Directions : CallProcessFrame(k, d)
    \/ SuperReturns
    \/ EndCleanupDone
    \/ PushReturns
    \/ CallCleanup
    \/ CleanupReturns

(* ------------------------------------------------------------------ *)
(* ExotelFrameSerializer                                              *)
(*                                                                    *)
(* Audio is silence and is known by its length: a PCM buffer is its   *)
(* number of 16-bit samples (all channels together), a mu-law buffer  *)
(* its number of bytes (0xFF each).  Text is a sequence of character  *)
(* groups, so that a base64 string is its sequence of 4-character     *)
(* groups; JSON text is a sequence of tokens.                         *)
(* ------------------------------------------------------------------ *)

MaxSamples == 3
MaxSerCalls == 3
DefaultSampleRate == 8000

StreamSids == {"sid-a", "sid-b"}
SampleRates == {DefaultSampleRate, 16000}
Channels == {1, 2}

AudioRawFrame(audio, rate, channels) ==
    [t |-> "AudioRawFrame",
     v |-> [audio |-> audio, sample_rate |-> rate, num_channels |-> channels]]

OtherFrame(k) == [t |-> k, v |-> [audio |-> 0, sample_rate |-> 0, num_channels |-> 0]]

SerFrames ==
    {AudioRawFrame(n * c, r, c) : n \in 0..MaxSamples, r \in SampleRates, c \in Channels}
    \cup {OtherFrame("StartInterruptionFrame"), OtherFrame("TextFrame")}

\* pipecat.audio.utils: resample to the output rate, one mu-law byte per sample
PcmToUlaw(samples, inRate, outRate) == (samples * outRate) \div inRate

\* pipecat.audio.utils: one 16-bit sample per mu-law byte, resampled
UlawToPcm(bytes, inRate, outRate) == (bytes * outRate) \div inRate

\* base64.b64encode of n bytes 0xFF
B64Encode(n) ==
    [i \in 1..((n + 2) \div 3) |->
        IF 3 * i <= n THEN "////" ELSE IF n % 3 = 1 THEN "/w==" ELSE "//8="]

\* base64.b64decode: the number of bytes, or binascii.Error
B64Decode(groups) ==
    LET last == IF groups = <<>> THEN "////" ELSE groups[Len(groups)]
        full == \A i \in 1..(Len(groups) - 1) : groups[i] = "////"
        tail == IF last = "////" THEN 3 ELSE IF last = "//8=" THEN 2 ELSE 1
    IN  IF full /\ last \in {"////", "//8=", "/w=="}
        THEN [ok |-> TRUE, n |-> IF groups = <<>> THEN 0 ELSE 3 * (Len(groups) - 1) + tail]
        ELSE [ok |-> FALSE, n |-> 0]

\* JSON values
Str(groups) == [t |-> "str", v |-> groups]
Text(s) == Str(<<s>>)
Num(n) == [t |-> "num", v |-> n]
Obj(pairs) == [t |-> "obj", v |-> pairs]
Pair(key, val) == [key |-> <<key>>, val |-> val]

\* JSON tokens
P(c) == [k |-> "punct", v |-> c]
S(groups) == [k |-> "str", v |-> groups]
N(n) == [k |-> "num", v |-> n]

RECURSIVE JsonDumps(_)
RECURSIVE DumpMembers(_)

DumpMembers(pairs) ==
    IF pairs = <<>> THEN <<>>
    ELSE <<S(Head(pairs).key), P(":")>> \o JsonDumps(Head(pairs).val)
         \o (IF Len(pairs) > 1 THEN <<P(",")>> \o DumpMembers(Tail(pairs)) ELSE <<>>)

JsonDumps(val) ==
    IF val.t = "str" THEN <<S(val.v)>>
    ELSE IF val.t = "num" THEN <<N(val.v)>>
    ELSE <<P("{")>> \o DumpMembers(val.v) \o <<P("}")>>

ParseFail == [ok |-> FALSE, v |-> Num(0), rest |-> <<>>]

IsPunct(tok, c) == tok.k = "punct" /\ tok.v = c

RECURSIVE ParseValue(_)
RECURSIVE ParseMembers(_, _)

ParseMembers(toks, acc) ==
    IF Len(toks) < 3 \/ toks[1].k # "str" \/ ~IsPunct(toks[2], ":")
    THEN ParseFail
    ELSE LET r == ParseValue(SubSeq(toks, 3, Len(toks)))
             more == Append(acc, [key |-> toks[1].v, val |-> r.v])
         IN  IF ~r.ok \/ r.rest = <<>> THEN ParseFail
             ELSE IF IsPunct(Head(r.rest), "}")
             THEN [ok |-> TRUE, v |-> Obj(more), rest |-> Tail(r.rest)]
             ELSE IF IsPunct(Head(r.rest), ",") THEN ParseMembers(Tail(r.rest), more)
             ELSE ParseFail

ParseValue(toks) ==
    IF toks = <<>> THEN ParseFail
    ELSE LET h == Head(toks)
         IN  IF h.k = "str" THEN [ok |-> TRUE, v |-> Str(h.v), rest |-> Tail(toks)]
             ELSE IF h.k = "num" THEN [ok |-> TRUE, v |-> Num(h.v), rest |-> Tail(toks)]
             ELSE IF h.v # "{" \/ Len(toks) < 2 THEN ParseFail
             ELSE IF IsPunct(toks[2], "}")
             THEN [ok |-> TRUE, v |-> Obj(<<>>), rest |-> SubSeq(toks, 3, Len(toks))]
             ELSE ParseMembers(Tail(toks), <<>>)

\* json.loads: the value, or JSONDecodeError
JsonLoads(toks) ==
    LET r == ParseValue(toks)
    IN  IF r.ok /\ r.rest = <<>> THEN [ok |-> TRUE, v |-> r.v] ELSE [ok |-> FALSE, v |-> Num(0)]

\* message[key] on a dict read from JSON: the last pair with that key
HasKey(obj, key) == \E i \in 1..Len(obj.v) : obj.v[i].key = <<key>>

Get(obj, key) ==
    LET i == CHOOSE j \in 1..Len(obj.v) :
                 /\ obj.v[j].key = <<key>>
                 /\ \A l \in (j + 1)..Len(obj.v) : obj.v[l].key # <<key>>
    IN  obj.v[i].val

IsText(val, s) == val.t = "str" /\ val.v = <<s>>

\* What a call returns or raises
None == [t |-> "none", v |-> "None"]
Raised(e) == [t |-> "error", v |-> e]
Message(toks) == [t |-> "text", v |-> toks]
Returned(f) == [t |-> "frame", v |-> f]

MediaEnvelope(sid, payload) ==
    Obj(<<Pair("event", Text("media")), Pair("streamSid", Text(sid)),
          Pair("media", Obj(<<Pair("payload", Str(payload))>>))>>)

\* Faulty variant of ClearEnvelope: the stream identifier is left out.
ClearEnvelopeNoSid(sid) == Obj(<<Pair("event", Text("clear"))>>)

\* line 38
ClearEnvelope(sid) == Obj(<<Pair("event", Text("clear")), Pair("streamSid", Text(sid))>>)

\* Faulty variant of SerializeResult: `else` in place of the isinstance test
\* of line 37, so that every other frame is written as a clear event.
SerializeResultElseClear(f, sid, rate) ==
    IF f.t = "AudioRawFrame"
    THEN Message(JsonDumps(MediaEnvelope(sid,
             B64Encode(PcmToUlaw(f.v.audio, f.v.sample_rate, rate)))))
    ELSE Message(JsonDumps(ClearEnvelope(sid)))

\* serialize, lines 24-40
SerializeResult(f, sid, rate) ==
    IF f.t = "AudioRawFrame"
    THEN Message(JsonDumps(MediaEnvelope(sid,
             B64Encode(PcmToUlaw(f.v.audio, f.v.sample_rate, rate)))))
    ELSE IF f.t = "StartInterruptionFrame"
    THEN Message(JsonDumps(ClearEnvelope(sid)))
    ELSE None

MediaFrame(message, rate) ==
    IF ~HasKey(message, "media") THEN Raised("KeyError")
    ELSE IF Get(message, "media").t # "obj" THEN Raised("TypeError")
    ELSE IF ~HasKey(Get(message, "media"), "payload") THEN Raised("KeyError")
    ELSE LET payload == Get(Get(message, "media"), "payload")
         IN  IF payload.t # "str" THEN Raised("TypeError")
             ELSE IF ~B64Decode(payload.v).ok THEN Raised("binascii.Error")
             ELSE Returned(AudioRawFrame(UlawToPcm(B64Decode(payload.v).n, rate, rate),
                                         rate, 1))

\* Faulty variant of DeserializeResult: the decode error is swallowed.
DeserializeResultLenient(data, rate) ==
    LET message == JsonLoads(data)
    IN  IF ~message.ok THEN None
        ELSE IF message.v.t # "obj" THEN Raised("TypeError")
        ELSE IF ~HasKey(message.v, "event") THEN Raised("KeyError")
        ELSE IF ~IsText(Get(message.v, "event"), "media") THEN None
        ELSE MediaFrame(message.v, rate)

\* deserialize, lines 42-53; every subscript and call may raise
DeserializeResult(data, rate) ==
    LET message == JsonLoads(data)
    IN  IF ~message.ok THEN Raised("JSONDecodeError")
        ELSE IF message.v.t # "obj" THEN Raised("TypeError")
        ELSE IF ~HasKey(message.v, "event") THEN Raised("KeyError")
        ELSE IF ~IsText(Get(message.v, "event"), "media") THEN None
        ELSE MediaFrame(message.v, rate)

\* Inbound text: JSON values written out, and texts that are not JSON
OtherEvents == {"start", "stop", "ping"}

InboundValues ==
    {MediaEnvelope(sid, B64Encode(n)) : sid \in StreamSids, n \in 0..MaxSamples}
    \cup {Obj(<<Pair("event", Text(e)), Pair("streamSid", Text(sid))>>) :
              e \in OtherEvents, sid \in StreamSids}
    \cup {Obj(<<Pair("streamSid", Text(sid))>>) : sid \in StreamSids}
    \cup {Obj(<<>>), Obj(<<Pair("event", Num(1))>>), Obj(<<Pair("event", Text("media"))>>),
          Text("media"), Num(1)}

Inbound(val, text, wellFormed) == [value |-> val, text |-> text, wellFormed |-> wellFormed]

InboundTexts ==
    {Inbound(val, JsonDumps(val), TRUE) : val \in InboundValues}
    \cup UNION {{Inbound(val, SubSeq(JsonDumps(val), 1, n), FALSE) :
                     n \in 0..(Len(JsonDumps(val)) - 1)} : val \in InboundValues}
    \cup {Inbound(val, JsonDumps(val) \o <<P("}")>>, FALSE) : val \in InboundValues}

NoSerFrame == OtherFrame("none")
NoInbound == Inbound(Num(0), <<>>, FALSE)
NoSerCall == [op |-> "none", frame |-> NoSerFrame, inbound |-> NoInbound, out |-> None]

SerializerBuilt(sid, rate) ==
    /\ streamSid = sid
    /\ sampleRate = rate
    /\ built = [stream_sid |-> sid, sample_rate |-> rate]
    /\ serCalls = 0
    /\ serLast = NoSerCall

SerializeCall(f) ==
    /\ serCalls < MaxSerCalls
    /\ serCalls' = serCalls + 1
    /\ serLast' = [op |-> "serialize", frame |-> f, inbound |-> NoInbound,
                   out |-> SerializeResult(f, streamSid, sampleRate)]
    /\ UNCHANGED <<streamSid, sampleRate, built>>
    /\ UNCHANGED <<idleVars, dialVars>>

DeserializeCall(d) ==
    /\ serCalls < MaxSerCalls
    /\ serCalls' = serCalls + 1
    /\ serLast' = [op |-> "deserialize", frame |-> NoSerFrame, inbound |-> d,
                   out |-> DeserializeResult(d.text, sampleRate)]
    /\ UNCHANGED <<streamSid, sampleRate, built>>
    /\ UNCHANGED <<idleVars, dialVars>>

\* deserialize is handed the text serialize has just returned
DeserializeOwn ==
    /\ serCalls < MaxSerCalls
    /\ serLast.op = "serialize"
    /\ serLast.out.t = "text"
    /\ serCalls' = serCalls + 1
    /\ serLast' = [op |-> "roundtrip", frame |-> serLast.frame,
                   inbound |-> Inbound(Num(0), serLast.out.v, TRUE),
                   out |-> DeserializeResult(serLast.out.v, sampleRate)]
    /\ UNCHANGED <<streamSid, sampleRate, built>>
    /\ UNCHANGED <<idleVars, dialVars>>

SerNext ==
    \/ \E f \in SerFrames : SerializeCall(f)
    \/ \E d \in InboundTexts : DeserializeCall(d)
    \/ DeserializeOwn

(* ------------------------------------------------------------------ *)
(* The dial-out bot's on_call_state_updated handler                    *)
(* ------------------------------------------------------------------ *)

MaxEvents == 3
DialAttempts == 3
InitialBackoff == 1
BackoffFactor == 2

CallIds == 0..3
CallStates == {"joining", "joined", "left"}

get_phone_number(id) == IF id % 2 = 0 THEN "+14155204406" ELSE "+19499870006"

HandlerIdle(id) ==
    /\ dialPc = "idle"
    /\ callId = id
    /\ callState = "none"
    /\ phone = "none"
    /\ outcomes = <<>>
    /\ waits = <<>>
    /\ backoff = 0
    /\ slept = 0
    /\ dialoutId = "None"
    /\ nEvents = 0

\* the handler is called; with "joined" it enters the loop, otherwise it
\* runs to its end (the "left" branch deletes the room and returns)
HandlerCalled(state) ==
    /\ dialPc \in {"idle", "done"}
    /\ nEvents < MaxEvents
    /\ nEvents' = nEvents + 1
    /\ callState' = state
    /\ dialoutId' = "None"
    /\ outcomes' = <<>>
    /\ waits' = <<>>
    /\ slept' = 0
    /\ phone' = "none"
    /\ IF state = "joined"
       THEN dialPc' = "try" /\ backoff' = InitialBackoff
       ELSE dialPc' = "done" /\ backoff' = 0
    /\ UNCHANGED callId
    /\ UNCHANGED <<idleVars, serVars>>

StartDialoutSucceeds ==
    /\ dialPc = "try"
    /\ phone' = get_phone_number(callId)
    /\ outcomes' = Append(outcomes, "ok")
    /\ dialoutId' = "dialout"
    /\ dialPc' = "done"
    /\ UNCHANGED <<callId, callState, waits, backoff, slept, nEvents>>
    /\ UNCHANGED <<idleVars, serVars>>

StartDialoutRaises ==
    /\ dialPc = "try"
    /\ phone' = get_phone_number(callId)
    /\ outcomes' = Append(outcomes, "error")
    /\ waits' = Append(waits, backoff)
    /\ slept' = 0
    /\ dialPc' = "sleep"
    /\ UNCHANGED <<callId, callState, backoff, dialoutId, nEvents>>
    /\ UNCHANGED <<idleVars, serVars>>

SleepTick ==
    /\ dialPc = "sleep"
    /\ slept < backoff
    /\ slept' = slept + 1
    /\ UNCHANGED <<dialPc, callId, callState, phone, outcomes, waits, backoff, dialoutId,
                   nEvents>>
    /\ UNCHANGED <<idleVars, serVars>>

LoopDone == Len(outcomes) >= DialAttempts

SleepReturns ==
    /\ dialPc = "sleep"
    /\ slept = backoff
    /\ backoff' = backoff * BackoffFactor
    /\ dialPc' = IF LoopDone THEN "done" ELSE "try"
    /\ UNCHANGED <<callId, callState, phone, outcomes, waits, slept, dialoutId, nEvents>>
    /\ UNCHANGED <<idleVars, serVars>>

DialNext ==
    \/ \E state \in CallStates : HandlerCalled(state)
    \/ StartDialoutSucceeds
    \/ StartDialoutRaises
    \/ SleepTick
    \/ SleepReturns

Init == ProcessorInit /\ SerializerBuilt("sid-a", DefaultSampleRate) /\ HandlerIdle(0)

DialInit ==
    /\ ProcessorInit
    /\ SerializerBuilt("sid-a", DefaultSampleRate)
    /\ \E id \in CallIds : HandlerIdle(id)

DialSpec == DialInit /\ [][DialNext]_vars

SerInit ==
    /\ ProcessorInit
    /\ \E sid \in StreamSids, rate \in SampleRates : SerializerBuilt(sid, rate)
    /\ HandlerIdle(0)

SerSpec == SerInit /\ [][SerNext]_vars


Next == Tick \/ TimerExpires \/ IdleStep \/ CallerStep

Spec == Init /\ [][Next]_vars

TypeOK ==
    /\ running \in BOOLEAN /\ interrupted \in BOOLEAN /\ idleEvent \in BOOLEAN
    /\ idleTask \in TaskStates /\ cancelReq \in BOOLEAN
    /\ timer \in 0..Timeout /\ winAge \in 0..Timeout
    /\ actAge \in 0..Timeout /\ quietAge \in 0..Timeout
    /\ pc \in {"idle", "super", "pf_cleanup", "push", "cleanup"}
    /\ frame.kind \in FrameKinds \cup {"none"}
    /\ direction \in Directions \cup {NoDirection}
    /\ pushDir \in Directions \cup {NoDirection}
    /\ Len(received) <= MaxFrames
    /\ nCleanups <= MaxCleanups

\* The event loop runs every task that is ready, the clock advances and a due
\* timer fires. Nothing obliges the pipeline to call the processor.
FairSpec == Spec /\ WF_vars(Tick) /\ WF_vars(TimerExpires) /\ WF_vars(IdleStep)

\* The event loop runs the idle task whenever it is ready and resumes
\* process_frame once the task it awaits at line 49 is done. Nothing is assumed
\* of the clock: time may stand still.
LiveSpec == Spec /\ WF_vars(IdleStep) /\ WF_vars(EndCleanupDone)

(* ------------------------------------------------------------------ *)
(* Claims                                                             *)
(* ------------------------------------------------------------------ *)

\* The callback has just been invoked (the idle task is suspended in it).
InCallback == idleTask = "callback"

\* C1: once a UserStartedSpeaking frame has been handed to process_frame inside
\* an open wait window, the callback is not invoked until a later
\* UserStoppedSpeaking frame has been processed and a further full T has passed
\* with no activity frame.
C1_NoCallbackWhileUserSpeaks ==
    InCallback =>
        /\ fired.speaking # "started"
        /\ fired.speaking = "stopped" => fired.quietAge = Timeout

\* An activity or End/EndTask frame has been received, or cleanup() was called.
Disturbed ==
    \/ \E i \in 1..Len(received) : received[i].kind \in ActivityKinds \cup EndKinds
    \/ calls # <<>>

\* C2: the callback is never invoked before T ticks have passed since the
\* current wait window began (construction, or the end of the previous loop
\* iteration), and if no activity frame and no End/EndTask frame is ever
\* received (and the processor is not torn down) it is eventually invoked.
C2_FiresAfterTimeout ==
    /\ [](InCallback => fired.winAge = Timeout)
    /\ <>(Disturbed \/ InCallback)

C2_Witness == InCallback /\ ~Disturbed /\ fired.winAge = Timeout /\ received # <<>>

C4_CleanupAwaitsTask ==
    /\ exits # <<>> => TaskDone
    /\ InCallback => ~fired.afterExit

C4_Witness ==
    /\ exits # <<>>
    /\ exits[1] = "returned"
    /\ calls[1].task = "waiting"
    /\ calls[1].via = "pipeline"
    /\ running

\* C5: a cleanup() call made after an earlier cleanup() call has finished
\* completes without raising and finds the idle task terminated as the earlier
\* call left it, whatever the idle task was doing when it was first cancelled.
C5_SecondCleanupSafe ==
    \A i \in 2..Len(exits) : exits[i] = "returned" /\ calls[i].task \in {"finished", "cancelled"}

\* C6: cleanup() called right after construction, before any frame was handed
\* over and before the idle task ran its first step, completes without raising
\* and leaves the idle task terminated.
C6_CleanupBeforeStart ==
    (/\ exits # <<>>
     /\ calls[1].via = "pipeline"
     /\ calls[1].task = "created"
     /\ calls[1].frames = 0)
    => (exits[1] = "returned" /\ TaskDone)

\* C7: on an EndFrame or EndTaskFrame, the frame is handed to push_frame before
\* the processor's cleanup() of the idle task starts.
C7_ForwardBeforeDrain ==
    pc = "pf_cleanup" => \E j \in 1..Len(pushed) : pushed[j] = frame

\* C8: the callback is not invoked earlier than a full T after the most recent
\* activity frame was received by process_frame while the processor was running.
C8_ActivityResetsWindow == InCallback => fired.actAge = Timeout

\* The value the last UserStartedSpeaking / UserStoppedSpeaking frame of s sets.
RECURSIVE LastSpeakingFlag(_)
LastSpeakingFlag(s) ==
    IF s = <<>> THEN FALSE
    ELSE LET k == s[Len(s)].kind
         IN  IF k = "UserStartedSpeakingFrame" THEN TRUE
             ELSE IF k = "UserStoppedSpeakingFrame" THEN FALSE
             ELSE LastSpeakingFlag(SubSeq(s, 1, Len(s) - 1))

\* Lines 54-63 run for kind k on a running processor.
Handles(k) == pc = "push" /\ pc' = "idle" /\ frame.kind = k /\ running

\* C9: the interrupted flag is false if no UserStartedSpeaking or
\* UserStoppedSpeaking frame was processed while running, else the value set by
\* the last one; processing a BotSpeaking frame leaves the flag as it is and
\* sets the idle event.
C9_FlagFollowsUserFrames ==
    /\ [](interrupted = LastSpeakingFlag(handled))
    /\ [][Handles("BotSpeakingFrame") => (interrupted' = interrupted /\ idleEvent')]_vars

C9_Witness ==
    /\ Len(handled) = 2
    /\ handled[1].kind = "UserStartedSpeakingFrame"
    /\ handled[2].kind = "BotSpeakingFrame"
    /\ interrupted
    /\ idleEvent

\* A step of process_frame on an activity frame.
ActivityFrameStep ==
    /\ pc' # pc
    /\ frame.kind \in ActivityKinds \/ frame'.kind \in ActivityKinds

\* C10: after an End/EndTask frame has been observed, processing a later
\* activity frame leaves the interrupted flag, the running flag and the idle
\* event unchanged and does not restart the idle task.
C10_NoActivityAfterEnd ==
    [][(endObserved /\ ActivityFrameStep)
        => (TaskDone /\ UNCHANGED <<interrupted, running, idleEvent, idleTask, cancelReq>>)]_vars

\* An activity frame that followed an End frame has been processed.
C10_Witness ==
    /\ pc = "idle"
    /\ Len(received) = 2
    /\ received[1].kind \in EndKinds
    /\ received[2].kind = "UserStartedSpeakingFrame"
    /\ Len(pushed) = 2
    /\ ~interrupted

\* C11: the frames handed to push_frame are the frames received: each one
\* once, unchanged, in the order received and with the direction it arrived
\* with.
C11_ForwardsEveryFrame ==
    /\ pc \in {"idle", "push"} => pushed = received
    /\ pc = "push" => pushDir = direction

\* C16: when an End/EndTask frame arrives while the idle task is suspended in
\* the callback, the cleanup() awaited by process_frame does not raise and the
\* frame is handed to push_frame.
C16_EndDuringCallbackForwarded ==
    \A i \in 1..Len(exits) :
        (calls[i].via = "process_frame" /\ calls[i].task = "callback")
        => /\ exits[i] = "returned"
           /\ \E j \in 1..Len(pushed) : pushed[j] = received[calls[i].frames]

\* Every cleanup() begun by process_frame has completed.
EndCleanupCompleted ==
    \A i \in 1..Len(calls) : calls[i].via = "process_frame" => i <= Len(exits)

\* Every cleanup() begun by process_frame has completed by returning.
EndCleanupReturned ==
    \A i \in 1..Len(calls) :
        calls[i].via = "process_frame" => (i <= Len(exits) /\ exits[i] = "returned")

\* After an End/EndTask frame is observed the idle task ends and the await of
\* line 49 completes, whether or not any time passes.
TaskTerminatesAfterEnd == endObserved ~> (TaskDone /\ EndCleanupCompleted)

\* C17: after an End/EndTask frame is observed, the idle task eventually
\* terminates, without any time having to pass, and the cleanup() awaited by
\* process_frame eventually returns, whatever the idle task was doing.
C17_EndCleanupEventuallyReturns == endObserved ~> (TaskDone /\ EndCleanupReturned)

\* C18: the callback is invoked only when a timeout expiry is delivered with
\* the interrupted flag false, and then exactly once; a window expires only
\* after a full T; when the callback returns, a signal raised meanwhile is
\* cleared and a new full window starts.
C18_CallbackOncePerExpiry ==
    /\ [][(~InCallback /\ InCallback') => (idleTask = "expired" /\ ~interrupted)]_vars
    /\ [][(idleTask = "expired" /\ idleTask' # "expired" /\ ~cancelReq)
            => (InCallback' <=> ~interrupted)]_vars
    /\ [][(idleTask = "waiting" /\ idleTask' = "expired") => timer = Timeout]_vars
    /\ [][(InCallback /\ idleTask' = "waiting") => (timer' = 0 /\ ~idleEvent')]_vars

\* An activity frame was processed after the callback in progress was invoked,
\* and its signal is pending.
C18_Witness ==
    /\ InCallback
    /\ ~cancelReq
    /\ idleEvent
    /\ fired.quietAge = Timeout
    /\ quietAge = 0
    /\ pc = "idle"


(* ------------------------------------------------------------------ *)
(* ExotelFrameSerializer: claims                                      *)
(* ------------------------------------------------------------------ *)

Abs(x) == IF x < 0 THEN 0 - x ELSE x

\* C12: serialize of a StartInterruptionFrame returns exactly the text
\* {"event":"clear","streamSid":<id>}, <id> being the stream identifier the
\* serializer was built with, and nothing else, whatever calls came before.
C12_ClearEnvelopeExact ==
    (serLast.op = "serialize" /\ serLast.frame.t = "StartInterruptionFrame")
    => serLast.out = Message(<<P("{"), S(<<"event">>), P(":"), S(<<"clear">>), P(","),
                               S(<<"streamSid">>), P(":"), S(<<built.stream_sid>>), P("}")>>)

C12_Witness ==
    /\ serLast.op = "serialize"
    /\ serLast.frame.t = "StartInterruptionFrame"
    /\ serCalls = MaxSerCalls
    /\ built.stream_sid = "sid-b"
    /\ serLast.out.t = "text"

EventIsMedia(val) == HasKey(val, "event") /\ IsText(Get(val, "event"), "media")

\* C13: deserialize of a well-formed envelope (a JSON object) whose event
\* type is not "media", the event field being absent included, returns None
\* and raises nothing.
C13_NonMediaDropped ==
    (/\ serLast.op = "deserialize"
     /\ serLast.inbound.wellFormed
     /\ serLast.inbound.value.t = "obj"
     /\ ~EventIsMedia(serLast.inbound.value))
    => serLast.out = None

\* C14: deserialize of text that is not JSON raises the decode error: it
\* neither returns None nor returns a frame.
C14_MalformedSurfaced ==
    (serLast.op = "deserialize" /\ ~serLast.inbound.wellFormed)
    => serLast.out = Raised("JSONDecodeError")

C14_Witness ==
    /\ serLast.op = "deserialize"
    /\ ~serLast.inbound.wellFormed
    /\ Len(serLast.inbound.text) > 3
    /\ serLast.inbound.text[Len(serLast.inbound.text)].k = "str"
    /\ serLast.out.t = "error"

\* C15: deserialize(serialize(frame)) of an AudioRawFrame is an AudioRawFrame
\* with the channel count of the input and the same duration (samples per
\* channel over sample rate) to within one output sample.
C15_RoundTripKeepsDurationAndChannels ==
    (serLast.op = "roundtrip" /\ serLast.frame.t = "AudioRawFrame")
    => /\ serLast.out.t = "frame"
       /\ serLast.out.v.t = "AudioRawFrame"
       /\ serLast.out.v.v.num_channels = serLast.frame.v.num_channels
       /\ LET in == serLast.frame.v
              out == serLast.out.v.v
          IN  Abs(out.audio * in.num_channels * in.sample_rate
                  - in.audio * out.num_channels * out.sample_rate)
              <= in.num_channels * in.sample_rate

\* C19: serialize returns a "media" message for an AudioRawFrame, a "clear"
\* message for a StartInterruptionFrame and None for any other frame; every
\* message carries the streamSid given at construction; no call changes the
\* serializer's stream identifier or sample rate.
C19_SerializeTotalAndStable ==
    /\ streamSid = built.stream_sid
    /\ sampleRate = built.sample_rate
    /\ serLast.op = "serialize" =>
          LET kind == serLast.frame.t
              out == serLast.out
              message == JsonLoads(out.v)
          IN  /\ out.t = "text" <=> kind \in {"AudioRawFrame", "StartInterruptionFrame"}
              /\ out.t # "text" => out = None
              /\ out.t = "text" =>
                    /\ message.ok
                    /\ message.v.t = "obj"
                    /\ HasKey(message.v, "event")
                    /\ IsText(Get(message.v, "event"),
                              IF kind = "AudioRawFrame" THEN "media" ELSE "clear")
                    /\ HasKey(message.v, "streamSid")
                    /\ IsText(Get(message.v, "streamSid"), built.stream_sid)

C19_Witness ==
    /\ serLast.op = "serialize"
    /\ serLast.frame.t = "TextFrame"
    /\ serLast.out = None
    /\ serCalls = MaxSerCalls
    /\ streamSid = "sid-b"


(* ------------------------------------------------------------------ *)
(* Dial-out handler: claims                                           *)
(* ------------------------------------------------------------------ *)

RetriesExhausted ==
    /\ Len(outcomes) = DialAttempts
    /\ \A i \in 1..Len(outcomes) : outcomes[i] = "error"

\* at most three attempts, none after a success, and after the i-th failure
\* a wait of 1, 2, 4 seconds
RetryShape ==
    /\ Len(outcomes) <= DialAttempts
    /\ \A i \in 1..(Len(outcomes) - 1) : outcomes[i] = "error"
    /\ Len(waits) = Cardinality({i \in 1..Len(outcomes) : outcomes[i] = "error"})
    /\ \A i \in 1..Len(waits) : waits[i] = InitialBackoff * BackoffFactor ^ (i - 1)
    /\ dialPc = "sleep" => slept <= waits[Len(waits)]

\* C20: on "joined" start_dialout is attempted at most 3 times and never
\* after a success, the waits after the failures are 1, 2, 4 seconds, and
\* the handler fails with the service's error exactly when all three
\* attempts have failed: it does not return normally without a dial-out.
C20_RetryThenFatal ==
    /\ RetryShape
    /\ dialPc = "failed" => RetriesExhausted
    /\ (dialPc = "done" /\ callState = "joined") => dialoutId # "None"

====
